---------------------------- MODULE Spec2Model ----------------------------
(***************************************************************************)
(* Model of the client-side cache / retry / prefetch layer of bytebank:    *)
(*   useSmartCache     (src/bytebank/src/shared/hooks/useAdvancedState.ts)  *)
(*   useSmartPrefetch  (src/bytebank/src/shared/adapters/                   *)
(*                      transactionAdapter.ts)                              *)
(*   the reactive streams and epics                                         *)
(*                     (src/bytebank/src/shared/reactive/epics.ts)          *)
(*   useReactiveInfiniteScroll                                              *)
(*                     (src/bytebank/src/shared/hooks/useReactive.ts)       *)
(* JavaScript runs one task at a time: every action below is one task (the  *)
(* synchronous code between two awaits or timer callbacks).                 *)
(* Time is in milliseconds; Date.now() is the variable now.                 *)
(***************************************************************************)
EXTENDS Integers, Sequences, FiniteSets, TLC

VARIABLES
    now,            \* Date.now()
    ticks,          \* number of clock advances so far (bounds the run)
    mounted,        \* the owning component is mounted
    cfg,            \* useSmartCache config: [ttl, maxRetries, retryDelay]
    cache,          \* cache.current: Map key -> CacheEntry
    retryCount,     \* retryCount.current: Map key -> number
    retryTimeouts,  \* retryTimeouts.current: Map key -> timer handle
    calls,          \* executeWithRetry chains, one per external call
    ret,            \* what the step just taken returned to its caller
    lastWrite,      \* history: key -> [value, at] of the latest setCached
    meddled,        \* history: keys written or invalidated by the owner
    queue,          \* prefetchQueue.current
    isPrefetching,  \* isPrefetching.current
    prefetchedKeys, \* prefetchedKeys.current
    worker,         \* the run of processPrefetchQueue, if any
    pnow,           \* prefetchNow calls
    hist,           \* history of the prefetch queue
    search,         \* createSearchStream: the operators of results$
    autoSave,       \* createAutoSaveStream: the operators of status$
    retryable,      \* createRetryableStream: the shared subscription
    retryEpic,      \* retryFailedOperationsEpic and the store it feeds
    scroll,         \* createInfiniteScrollStream: the operators of loadMore$
    epics           \* validateTransactionEpic and searchTransactionsEpic

cacheVars == <<now, ticks, mounted, cfg, cache, retryCount, retryTimeouts,
               calls, ret, lastWrite, meddled>>
rxVars == <<search, autoSave, retryable, retryEpic, scroll, epics>>
cacheVarsButRet == <<now, ticks, mounted, cfg, cache, retryCount,
                     retryTimeouts, calls, lastWrite, meddled, rxVars>>
pfVars == <<queue, isPrefetching, prefetchedKeys, worker, pnow, hist>>
vars == <<now, ticks, mounted, cfg, cache, retryCount, retryTimeouts,
          calls, ret, lastWrite, meddled,
          queue, isPrefetching, prefetchedKeys, worker, pnow, hist,
          search, autoSave, retryable, retryEpic, scroll, epics>>
\* the hooks, which the reactive streams leave alone
hookVars == <<mounted, cfg, cache, retryCount, retryTimeouts, calls,
              lastWrite, meddled, pfVars>>

-----------------------------------------------------------------------------
(* Bounds and input sets *)

MaxTtlTicks == 4    \* clock advances in one run of the cache
MaxRetryTicks == 3  \* clock advances in one run of the retry executor

Keys == {"a", "b"}
Values == {"", "data"}          \* "" is a falsy JavaScript value
Null == "null"
TtlSteps == {500, 1000}
TtlConfigs == [ttl : {0, 1000, 2000}, maxRetries : {3}, retryDelay : {1000}]
RetryConfigs == [ttl : {300000}, maxRetries : {2, 3}, retryDelay : {1000}]
Patterns == {"a", "b", "."}     \* regular expressions given to clearCache

MaxSchedules == 2   \* schedulePrefetch calls that change the queue, per run
MaxNowCalls == 1    \* prefetchNow calls that reach fetchFn, per run
MaxQueueTicks == 2      \* clock advances in one run of the queue alone
MaxQueueSchedules == 3  \* schedulePrefetch calls that change the queue

PfKeys == {"a"}
PfTimes == {100, 600100}        \* the times the clock comes to show
Undefined == -1                 \* a config field the caller left out
PriorityInputs == {2, 7}
TimeoutInputs == {Undefined, 100}
QueueKeys == {"a", "b", "c"}
QueuePriorities == {1, 5, 3}
QueueSteps == {100}
QueueValues == {"data"}
DefaultPriority == 0
DefaultTimeout == 5000
PauseMs == 100
PrefetchCacheConfig == [ttl |-> 600000, maxRetries |-> 2, retryDelay |-> 2000]

MaxWorkerTicks == 2     \* clock advances in one run of the single-flight worker
MaxWorkerSchedules == 3 \* queue changes in one run of the single-flight worker
WorkerKeys == {"a", "b"}
WorkerPriorities == {1, 5}
Batches == {<<[key |-> "a", priority |-> 1]>>,
            <<[key |-> "b", priority |-> Undefined]>>,
            <<[key |-> "a", priority |-> 1], [key |-> "b", priority |-> 5]>>}

MaxLiveSchedules == 2   \* queue changes in one run of the background queue

CallIds == {1, 2}               \* external executeWithRetry calls

MaxSearchTicks == 3     \* clock advances in one run of the search stream
SearchDebounceMs == 300
SearchSteps == {100, 300}
Chars == {"m", "e", "M", " "}
Queries == {<<"m">>, <<"m", "e">>, <<"M", "e", " ">>, <<" ">>}

MaxSaveTicks == 3       \* clock advances in one run of the auto-save stream
AutoSaveDebounceMs == 2000
SavedDisplayMs == 2000
SaveSteps == {1000, 2000}
Payloads == {"d1", "d2"}

MaxRetryableTicks == 3  \* clock advances in one run of a retryable stream
RetryCounts == {0, 1, 3}
RetryDelays == {1000}
RetryableSteps == {1000}
Subscribers == {1, 2}

MaxScrollTicks == 3     \* clock advances in one run of the scroll stream
MaxHookTicks == 3       \* clock advances in one run of the scroll hook
ThrottleMs == 200
ThresholdNum == 8       \* scrollThreshold = 0.8, as ThresholdNum / ThresholdDen
ThresholdDen == 10
ScrollSteps == {100, 200}
Ratio075 == [scrollY |-> 550, contentHeight |-> 1000, viewportHeight |-> 200]
Ratio080 == [scrollY |-> 600, contentHeight |-> 1000, viewportHeight |-> 200]
Ratio085 == [scrollY |-> 650, contentHeight |-> 1000, viewportHeight |-> 200]
EmptyPage == [scrollY |-> 0, contentHeight |-> 0, viewportHeight |-> 0]
NoContent == [scrollY |-> 0, contentHeight |-> 0, viewportHeight |-> 200]
ScrollEvents == {Ratio075, Ratio080, Ratio085, EmptyPage, NoContent}

MaxStoreTicks == 2      \* clock advances in one run of the store's epics
MaxStoreActions == 3    \* actions dispatched in one run of the store's epics
EpicDebounceMs == 500
StoreSteps == {500}
NullPayload == [isObject |-> FALSE, description |-> <<>>, value |-> 0,
                category |-> ""]
Transactions == [isObject : {TRUE}, description : {<<"m">>, <<" ">>},
                 value : {0, 10}, category : {"", "food"}]
ValidatePayloads == Transactions \cup {NullPayload}
NotAString == [isString |-> FALSE, text |-> <<>>]
SearchPayloads == [isString : {TRUE}, text : {<<"m">>, <<" ">>}]
                     \cup {NotAString}

MaxEpicTicks == 4       \* clock advances in one run of the retry epic
EpicDelayMs == 2000
EpicRetries == 3
EpicSteps == {2000}
ActionTypes == {"transactions/createTransactionFailed",
                "transactions/deleteTransactionFailed",
                "transactions/fetchTransactionsFailed"}

-----------------------------------------------------------------------------
(* JavaScript Map *)

Has(m, k) == k \in DOMAIN m
Put(m, k, v) == [x \in (DOMAIN m) \cup {k} |-> IF x = k THEN v ELSE m[x]]
Del(m, k) == [x \in (DOMAIN m) \ {k} |-> m[x]]
EmptyMap == [x \in {} |-> 0]

Truthy(v) == v # "" /\ v # Null

NoRet == [op |-> "none"]

-----------------------------------------------------------------------------
(* useSmartCache: the TTL cache *)

IsExpiredStrict(entry, t) == t >= entry.expiresAt

IsExpired(entry, t) == t > entry.expiresAt

\* getCached: the value returned
GetCachedValue(c, k, t) ==
    IF Has(c, k) /\ ~IsExpired(c[k], t) THEN c[k].data ELSE Null

\* getCached: the cache it leaves (an expired entry is removed)
GetCachedCache(c, k, t) ==
    IF Has(c, k) /\ IsExpired(c[k], t) THEN Del(c, k) ELSE c

NewEntryNoTtl(v, t) == [data |-> v, timestamp |-> t, expiresAt |-> t]

NewEntry(v, t) == [data |-> v, timestamp |-> t, expiresAt |-> t + cfg.ttl]

\* setCached: the cache it leaves
SetCachedCache(c, k, v, t) == Put(c, k, NewEntry(v, t))

\* new RegExp(pattern).test(key), for the patterns of Patterns
RegexTest(pattern, k) == pattern = "." \/ pattern = k

CacheStats(c, t) ==
    [op |-> "stats",
     totalEntries |-> Cardinality(DOMAIN c),
     validEntries |-> Cardinality({k \in DOMAIN c : ~IsExpired(c[k], t)}),
     expiredEntries |-> Cardinality({k \in DOMAIN c : IsExpired(c[k], t)}),
     retryingEntries |-> Cardinality(DOMAIN retryCount)]

-----------------------------------------------------------------------------
(* useSmartCache: executeWithRetry.  One chain per external call: the call  *)
(* itself and the calls its retry timers make.  pc is where the chain is:   *)
(* "awaiting" (action() in flight), "timer" (a retry timer is pending),     *)
(* "done".  promise is the promise the external caller holds.               *)

NewCall == [key |-> "a", pc |-> "new", cur |-> 0, due |-> 0, invoked |-> 0,
            fails |-> 0, promise |-> "none", value |-> Null, outcome |-> ""]

CountOf(k) == IF Has(retryCount, k) THEN retryCount[k] ELSE 0

CanRetryInclusive(cur) == cur <= cfg.maxRetries

\* line 202: currentRetries < maxRetries
CanRetry(cur) == cur < cfg.maxRetries

RetryWaitFlat(n) == cfg.retryDelay

\* line 209: retryDelay * nextRetryCount
RetryWait(n) == cfg.retryDelay * n

AbandonKeeps(rc, k) == rc

\* line 216: retryCount.current.delete(key)
Abandon(rc, k) == Del(rc, k)

\* the async function has thrown: its promise rejects
ThrowRetained(c) == c.promise

Throw(c) == IF c.promise = "pending" THEN "rejected" ELSE c.promise

InitCommon ==
    /\ now = 0
    /\ ticks = 0
    /\ mounted = TRUE
    /\ cache = EmptyMap
    /\ retryCount = EmptyMap
    /\ retryTimeouts = EmptyMap
    /\ calls = [c \in CallIds |-> NewCall]
    /\ ret = NoRet
    /\ lastWrite = EmptyMap
    /\ meddled = {}
    /\ search = [subscribed |-> FALSE, pending |-> <<>>, lastTime |-> 0,
                 previous |-> <<>>, runs |-> <<>>, delivered |-> <<>>,
                 lastRaw |-> <<>>]
    /\ autoSave = [subscribed |-> FALSE, pending |-> <<>>, lastTime |-> 0,
                   runs |-> <<>>, emitted |-> <<>>, status |-> "idle",
                   idleDue |-> {}, lastRaw |-> <<>>]
    /\ retryable = [pc |-> "none", retries |-> 0, delayMs |-> 0,
                    invoked |-> 0, soFar |-> 0, failures |-> 0, due |-> 0,
                    replay |-> <<>>, received |-> [s \in {} |-> <<>>],
                    late |-> {}]
    /\ retryEpic = [timer |-> <<>>, inflight |-> {}, reported |-> {},
                    redispatched |-> [t \in ActionTypes |-> 0],
                    gaveUp |-> FALSE]
    /\ scroll = [subscribed |-> FALSE, throttledUntil |-> 0,
                 loads |-> <<>>, emitted |-> 0, passed |-> <<>>,
                 loading |-> FALSE, unmet |-> FALSE]
    /\ epics = [validateAlive |-> TRUE, searchAlive |-> TRUE,
                debounce |-> <<>>, emitted |-> <<>>, sent |-> 0]

\* a retry timer that is not yet due
PendingDues ==
    {calls[c].due : c \in {x \in CallIds : calls[x].pc = "timer"
                                            /\ calls[x].due > now}}

\* Date.now() advances to the next moment a retry timer is due
TickToDeadline ==
    /\ PendingDues # {}
    /\ ticks < MaxRetryTicks
    /\ ticks' = ticks + 1
    /\ now' = CHOOSE d \in PendingDues : \A e \in PendingDues : d <= e
    /\ ret' = NoRet
    /\ UNCHANGED <<mounted, cfg, rxVars, cache, retryCount, retryTimeouts, calls,
                   lastWrite, meddled>>
    /\ UNCHANGED pfVars

\* Date.now() advances by d
TickTtl(d) ==
    /\ ticks < MaxTtlTicks
    /\ now' = now + d
    /\ ticks' = ticks + 1
    /\ ret' = NoRet
    /\ UNCHANGED <<mounted, cfg, rxVars, cache, retryCount, retryTimeouts, calls,
                   lastWrite, meddled>>
    /\ UNCHANGED pfVars

\* getCached(key), called by the owner
GetCached(k) ==
    /\ mounted
    /\ ret' = [op |-> "getCached", key |-> k,
               value |-> GetCachedValue(cache, k, now)]
    /\ cache' = GetCachedCache(cache, k, now)
    /\ UNCHANGED <<now, ticks, mounted, cfg, rxVars, retryCount, retryTimeouts, calls,
                   lastWrite, meddled>>
    /\ UNCHANGED pfVars

\* setCached(key, data), called by the owner
SetCached(k, v) ==
    /\ mounted
    /\ cache' = SetCachedCache(cache, k, v, now)
    /\ retryCount' = Del(retryCount, k)
    /\ lastWrite' = Put(lastWrite, k, [value |-> v, at |-> now])
    /\ meddled' = meddled \cup {k}
    /\ ret' = NoRet
    /\ UNCHANGED <<now, ticks, mounted, cfg, rxVars, retryTimeouts, calls>>
    /\ UNCHANGED pfVars

\* getCacheStats()
GetCacheStats ==
    /\ mounted
    /\ ret' = CacheStats(cache, now)
    /\ UNCHANGED <<now, ticks, mounted, cfg, rxVars, cache, retryCount, retryTimeouts,
                   calls, lastWrite, meddled>>
    /\ UNCHANGED pfVars

\* clearCache(pattern)
ClearCachePattern(pattern) ==
    /\ mounted
    /\ cache' = [k \in {x \in DOMAIN cache : ~RegexTest(pattern, x)} |-> cache[k]]
    /\ lastWrite' = [k \in {x \in DOMAIN lastWrite : ~RegexTest(pattern, x)}
                       |-> lastWrite[k]]
    /\ ret' = NoRet
    /\ UNCHANGED <<now, ticks, mounted, cfg, rxVars, retryCount, retryTimeouts, calls,
                   meddled>>
    /\ UNCHANGED pfVars

\* clearCache()
ClearCacheAll ==
    /\ mounted
    /\ cache' = EmptyMap
    /\ lastWrite' = EmptyMap
    /\ ret' = NoRet
    /\ UNCHANGED <<now, ticks, mounted, cfg, rxVars, retryCount, retryTimeouts, calls,
                   meddled>>
    /\ UNCHANGED pfVars

\* invalidateCache(key)
InvalidateCache(k) ==
    /\ mounted
    /\ cache' = Del(cache, k)
    /\ retryCount' = Del(retryCount, k)
    /\ retryTimeouts' = Del(retryTimeouts, k)
    /\ calls' = [c \in CallIds |->
                   IF Has(retryTimeouts, k) /\ retryTimeouts[k] = c
                   THEN [calls[c] EXCEPT !.pc = "done", !.due = 0, !.cur = 0,
                                         !.outcome = "cancelled"]
                   ELSE calls[c]]
    /\ lastWrite' = Del(lastWrite, k)
    /\ meddled' = meddled \cup {k}
    /\ ret' = NoRet
    /\ UNCHANGED <<now, ticks, mounted, cfg, rxVars>>
    /\ UNCHANGED pfVars

\* executeWithRetry(key, action), called by the owner: reads the attempt
\* count, calls action() and awaits it
ExecuteWithRetry(c, k) ==
    /\ mounted
    /\ calls[c].pc = "new"
    /\ \A b \in CallIds : b < c => calls[b].pc # "new"
    /\ calls' = [calls EXCEPT ![c] =
                   [NewCall EXCEPT !.key = k, !.pc = "awaiting",
                                   !.cur = CountOf(k), !.invoked = 1,
                                   !.promise = "pending"]]
    /\ ret' = NoRet
    /\ UNCHANGED <<now, ticks, mounted, cfg, rxVars, cache, retryCount, retryTimeouts,
                   lastWrite, meddled>>
    /\ UNCHANGED pfVars

\* action() resolves with v: lines 199-200
ActionResolves(c, v) ==
    /\ calls[c].pc = "awaiting"
    /\ cache' = SetCachedCache(cache, calls[c].key, v, now)
    /\ retryCount' = Del(retryCount, calls[c].key)
    /\ lastWrite' = Put(lastWrite, calls[c].key, [value |-> v, at |-> now])
    /\ calls' = [calls EXCEPT ![c] =
                   [@ EXCEPT !.pc = "done", !.cur = 0, !.outcome = "succeeded",
                             !.promise = IF @ = "pending" THEN "resolved" ELSE @,
                             !.value = IF calls[c].promise = "pending"
                                       THEN v ELSE @]]
    /\ ret' = NoRet
    /\ UNCHANGED <<now, ticks, mounted, cfg, rxVars, retryTimeouts, meddled>>
    /\ UNCHANGED pfVars

\* action() rejects: lines 201-219
ActionRejects(c) ==
    /\ calls[c].pc = "awaiting"
    /\ LET k == calls[c].key
           cur == calls[c].cur
       IN IF CanRetry(cur)
          THEN /\ retryCount' = Put(retryCount, k, cur + 1)
               /\ retryTimeouts' = Put(retryTimeouts, k, c)
               /\ calls' = [calls EXCEPT ![c] =
                              [@ EXCEPT !.pc = "timer", !.cur = 0,
                                        !.due = now + RetryWait(cur + 1),
                                        !.fails = @ + 1,
                                        !.promise = Throw(calls[c])]]
          ELSE /\ retryCount' = Abandon(retryCount, k)
               /\ retryTimeouts' = retryTimeouts
               /\ calls' = [calls EXCEPT ![c] =
                              [@ EXCEPT !.pc = "done", !.cur = 0,
                                        !.fails = @ + 1,
                                        !.outcome = "exhausted",
                                        !.promise = Throw(calls[c])]]
    /\ ret' = NoRet
    /\ UNCHANGED <<now, ticks, mounted, cfg, rxVars, cache, lastWrite, meddled>>
    /\ UNCHANGED pfVars

\* the retry timer of chain c fires: lines 206-209
RetryTimerFires(c) ==
    /\ calls[c].pc = "timer"
    /\ now >= calls[c].due
    /\ retryTimeouts' = Del(retryTimeouts, calls[c].key)
    /\ calls' = [calls EXCEPT ![c] =
                   [@ EXCEPT !.pc = "awaiting", !.due = 0,
                             !.cur = CountOf(calls[c].key),
                             !.invoked = @ + 1]]
    /\ ret' = NoRet
    /\ UNCHANGED <<now, ticks, mounted, cfg, rxVars, cache, retryCount, lastWrite,
                   meddled>>
    /\ UNCHANGED pfVars

\* the owner unmounts: the cleanup of lines 261-269
UnmountCache ==
    /\ mounted
    /\ mounted' = FALSE
    /\ calls' = [c \in CallIds |->
                   IF \E k \in DOMAIN retryTimeouts : retryTimeouts[k] = c
                   THEN [calls[c] EXCEPT !.pc = "done", !.due = 0, !.cur = 0,
                                         !.outcome = "cancelled"]
                   ELSE calls[c]]
    /\ retryTimeouts' = EmptyMap
    /\ ret' = NoRet
    /\ UNCHANGED <<now, ticks, cfg, rxVars, cache, retryCount, lastWrite, meddled>>
    /\ UNCHANGED pfVars

InitPrefetchIdle ==
    /\ queue = <<>>
    /\ isPrefetching = FALSE
    /\ prefetchedKeys = {}
    /\ worker = [pc |-> "idle", start |-> 0, due |-> 0,
                 item |-> [key |-> "", priority |-> 0, timeout |-> 0,
                           seq |-> 0]]
    /\ pnow = [pc |-> "idle", key |-> ""]
    /\ hist = [stamp |-> 0, fetches |-> 0, runs |-> 0, late |-> {},
               ignored |-> {}]

(* The TTL cache and its owner: set, get, remove, clear, stats, and the    *)
(* clock.  ttl is fixed when the cache is constructed.                     *)
InitTtl ==
    /\ InitCommon
    /\ cfg \in TtlConfigs
    /\ InitPrefetchIdle

NextTtl ==
    \/ \E d \in TtlSteps : TickTtl(d)
    \/ \E k \in Keys : GetCached(k)
    \/ \E k \in Keys, v \in Values : SetCached(k, v)
    \/ GetCacheStats
    \/ \E p \in Patterns : ClearCachePattern(p)
    \/ ClearCacheAll
    \/ \E k \in Keys : InvalidateCache(k)

SpecTtl == InitTtl /\ [][NextTtl]_vars

(* The retry executor and what touches its state.  The owner's setCached   *)
(* is left to SpecTtl: on the retry state it acts as a call whose action   *)
(* resolves (ActionResolves).  The clock moves from one timer deadline to  *)
(* the next; a timer may fire late, never early.                           *)
InitRetry ==
    /\ InitCommon
    /\ cfg \in RetryConfigs
    /\ InitPrefetchIdle

NextRetry ==
    \/ TickToDeadline
    \/ \E k \in Keys : InvalidateCache(k)
    \/ \E c \in CallIds, k \in Keys : ExecuteWithRetry(c, k)
    \/ \E c \in CallIds, v \in Values : ActionResolves(c, v)
    \/ \E c \in CallIds : ActionRejects(c)
    \/ \E c \in CallIds : RetryTimerFires(c)
    \/ UnmountCache

SpecRetry == InitRetry /\ [][NextRetry]_vars

(* The retry executor under calls whose action always fails: every        *)
(* action() in flight rejects in the end and every timer set fires once   *)
(* the clock has reached it.  The clock is not bounded here: it stops     *)
(* when no timer is left.                                                  *)
TickToRetryDeadline ==
    /\ PendingDues # {}
    /\ now' = CHOOSE d \in PendingDues : \A e \in PendingDues : d <= e
    /\ ret' = NoRet
    /\ UNCHANGED <<ticks, mounted, cfg, rxVars, cache, retryCount, retryTimeouts,
                   calls, lastWrite, meddled>>
    /\ UNCHANGED pfVars

NextFailing ==
    \/ TickToRetryDeadline
    \/ \E c \in CallIds, k \in Keys : ExecuteWithRetry(c, k)
    \/ \E c \in CallIds : ActionRejects(c)
    \/ \E c \in CallIds : RetryTimerFires(c)

SpecFailing ==
    /\ InitRetry
    /\ [][NextFailing]_vars
    /\ WF_vars(TickToRetryDeadline)
    /\ \A c \in CallIds : WF_vars(ActionRejects(c))
    /\ \A c \in CallIds : WF_vars(RetryTimerFires(c))

(* The retry executor around an invalidation: once invalidateCache(key)   *)
(* has been called the owner issues no further executeWithRetry for key   *)
(* (and no setCached at all); the calls already made run on.              *)
NextInvalidate ==
    \/ TickToDeadline
    \/ \E k \in Keys : InvalidateCache(k)
    \/ \E c \in CallIds, k \in Keys \ meddled : ExecuteWithRetry(c, k)
    \/ \E c \in CallIds, v \in Values : ActionResolves(c, v)
    \/ \E c \in CallIds : ActionRejects(c)
    \/ \E c \in CallIds : RetryTimerFires(c)

SpecInvalidate == InitRetry /\ [][NextInvalidate]_vars

-----------------------------------------------------------------------------
(* useSmartPrefetch.  The queue holds items [key, priority, timeout,       *)
(* addedAt]; timeout is config.timeout as the caller gave it.  seq and     *)
(* rank are history: the order in which the items were enqueued, and in    *)
(* which they were given their present priority.  worker is the run of     *)
(* processPrefetchQueue: "loop" (at the while test, synchronous: nothing   *)
(* else runs), "fetch" (awaiting the race of fetchFn() and the timeout,    *)
(* item being what the turn still reads of the item shifted off the        *)
(* queue, start when its fetchFn was called and due when the timer it     *)
(* awaits fires), "pause" (awaiting the 100 ms pause), "idle" (no run).    *)
(* hist is history:                                                        *)
(* stamp counts the changes schedulePrefetch made to the queue,            *)
(* fetches the fetchFn calls of prefetchNow, and runs the calls of         *)
(* processPrefetchQueue that went past its guard less those that reached   *)
(* line 215, and late holds the keys whose fetchFn() lost the race against *)
(* the timeout and has not settled yet, ignored those whose fetchFn()      *)
(* resolved after that.                                                    *)

NoItem == [key |-> "", priority |-> 0, timeout |-> 0, seq |-> 0]
IdleWorker == [pc |-> "idle", item |-> NoItem, start |-> 0, due |-> 0]

\* const item = prefetchQueue.current.shift(), less addedAt once it is read
Shifted(x) == [key |-> x.key, priority |-> x.priority, timeout |-> x.timeout,
               seq |-> x.seq]
IdleNow == [pc |-> "idle", key |-> ""]

\* priority = 0 in the destructuring of config
PriorityOf(p) == IF p = Undefined THEN DefaultPriority ELSE p

\* the timeout the item is documented to have (timeout = 5000 by default)
EffectiveTimeout(t) == IF t = Undefined THEN DefaultTimeout ELSE t

\* timeInQueue > item.config.timeout!  (a comparison with undefined is false)
QueueTimedOut(item, t) ==
    item.timeout # Undefined /\ t - item.addedAt > item.timeout

\* setTimeout(..., item.config.timeout)  (an undefined delay is 0)
RaceDelay(timeout) == IF timeout = Undefined THEN 0 ELSE timeout

\* Array.prototype.sort((a, b) => b.priority - a.priority), which is stable
InsertStable(sorted, x) ==
    LET n == Cardinality({i \in 1..Len(sorted) : sorted[i].priority >= x.priority})
    IN SubSeq(sorted, 1, n) \o <<x>> \o SubSeq(sorted, n + 1, Len(sorted))

RECURSIVE SortStable(_)
SortStable(q) ==
    IF q = <<>> THEN <<>>
    ELSE InsertStable(SortStable(SubSeq(q, 1, Len(q) - 1)), q[Len(q)])

Unsorted(q) == q

SortByPriority(q) == SortStable(q)

\* prefetchQueue.current.findIndex(item => item.key === key); 0 for -1
FindIndex(q, k) ==
    IF \E i \in 1..Len(q) : q[i].key = k
    THEN CHOOSE i \in 1..Len(q) : q[i].key = k /\ \A j \in 1..(i - 1) : q[j].key # k
    ELSE 0

\* line 137: if (cached && !autoRefetch) return
SkipsPrefetch(cached, autoRefetch) == Truthy(cached) /\ ~autoRefetch

RaisesAlways(priority, existing) == TRUE

StartsAlways(q) == q # <<>>

StartsNever(q) == FALSE

\* line 146: if (priority > existing.priority)
RaisesPriority(priority, existing) == priority > existing

\* schedulePrefetch, lines 135-164: the queue it leaves
ScheduledQueue(q, k, p, timeout, autoRefetch, stamp) ==
    LET i == FindIndex(q, k)
    IN IF SkipsPrefetch(GetCachedValue(cache, k, now), autoRefetch) THEN q
       ELSE IF i # 0
            THEN IF RaisesPriority(PriorityOf(p), q[i].priority)
                 THEN SortByPriority([q EXCEPT ![i].priority = PriorityOf(p),
                                               ![i].rank = stamp])
                 ELSE q
            ELSE SortByPriority(Append(q, [key |-> k, priority |-> PriorityOf(p),
                                           timeout |-> timeout, addedAt |-> now,
                                           seq |-> stamp, rank |-> stamp]))

\* schedulePrefetch reaches line 168 (the item was pushed)
Pushed(q, k, autoRefetch) ==
    /\ ~SkipsPrefetch(GetCachedValue(cache, k, now), autoRefetch)
    /\ FindIndex(q, k) = 0

\* processPrefetchQueue, lines 177-182: the guard and the flag
StartsWorker(q) == ~isPrefetching /\ q # <<>>

\* Date.now() reaches t
TickPrefetch(t) ==
    /\ worker.pc # "loop"
    /\ t > now
    /\ now' = t
    /\ ticks' = ticks + 1
    /\ ret' = NoRet
    /\ UNCHANGED <<mounted, cfg, rxVars, cache, retryCount, retryTimeouts, calls,
                   lastWrite, meddled>>
    /\ UNCHANGED pfVars

\* schedulePrefetch(key, fetchFn, {priority, background, timeout, autoRefetch})
SchedulePrefetch(k, p, timeout, background, autoRefetch) ==
    /\ mounted
    /\ worker.pc # "loop"
    /\ ret' = NoRet
    /\ UNCHANGED <<now, ticks, mounted, cfg, rxVars, retryCount, retryTimeouts, calls,
                   lastWrite, meddled, prefetchedKeys, pnow>>
    /\ cache' = GetCachedCache(cache, k, now)
    /\ LET q == ScheduledQueue(queue, k, p, timeout, autoRefetch, hist.stamp + 1)
           starts == Pushed(queue, k, autoRefetch) /\ ~background
                     /\ StartsWorker(q)
       IN /\ queue' = q
          /\ hist' = [hist EXCEPT
                         !.stamp = IF q # queue THEN @ + 1 ELSE @,
                         !.runs = IF starts THEN @ + 1 ELSE @]
          /\ IF starts
             THEN /\ isPrefetching' = TRUE
                  /\ worker' = [IdleWorker EXCEPT !.pc = "loop"]
             ELSE UNCHANGED <<isPrefetching, worker>>

\* processPrefetchQueue(), called by the owner: a call that does not pass
\* the guard of lines 177-179 returns at once
ProcessPrefetchQueue ==
    /\ mounted
    /\ worker.pc # "loop"
    /\ IF StartsWorker(queue)
       THEN /\ isPrefetching' = TRUE
            /\ worker' = [IdleWorker EXCEPT !.pc = "loop"]
            /\ hist' = [hist EXCEPT !.runs = @ + 1]
       ELSE UNCHANGED <<isPrefetching, worker, hist>>
    /\ ret' = NoRet
    /\ UNCHANGED cacheVarsButRet
    /\ UNCHANGED <<queue, prefetchedKeys, pnow>>

\* items.forEach(schedulePrefetch(key, fetchFn, {priority, background: true})):
\* the queue it leaves and the changes it made.  Every turn reads the cache
\* as it was before the batch: a getCached of an earlier turn removes an
\* expired entry only, which reads as null before and after
RECURSIVE BatchScheduled(_, _, _)
BatchScheduled(q, items, stamp) ==
    IF items = <<>>
    THEN [queue |-> q, stamp |-> stamp]
    ELSE LET q1 == ScheduledQueue(q, Head(items).key, Head(items).priority,
                                  Undefined, FALSE, stamp + 1)
         IN BatchScheduled(q1, Tail(items),
                           IF q1 # q THEN stamp + 1 ELSE stamp)

\* the cache the getCached calls of the batch leave
RECURSIVE BatchCache(_, _)
BatchCache(c, items) ==
    IF items = <<>> THEN c
    ELSE BatchCache(GetCachedCache(c, Head(items).key, now), Tail(items))

\* prefetchBatch(items), lines 247-260
PrefetchBatch(items) ==
    /\ mounted
    /\ worker.pc # "loop"
    /\ ret' = NoRet
    /\ UNCHANGED <<now, ticks, mounted, cfg, rxVars, retryCount, retryTimeouts, calls,
                   lastWrite, meddled, prefetchedKeys, pnow>>
    /\ cache' = BatchCache(cache, items)
    /\ LET r == BatchScheduled(queue, items, hist.stamp)
       IN /\ queue' = r.queue
          /\ hist' = [hist EXCEPT
                         !.stamp = r.stamp,
                         !.runs = IF StartsWorker(r.queue) THEN @ + 1 ELSE @]
          /\ IF StartsWorker(r.queue)
             THEN /\ isPrefetching' = TRUE
                  /\ worker' = [IdleWorker EXCEPT !.pc = "loop"]
             ELSE UNCHANGED <<isPrefetching, worker>>

\* the 2 s interval of lines 286-294
IntervalTick ==
    /\ mounted
    /\ worker.pc # "loop"
    /\ Len(queue) > 0 /\ ~isPrefetching
    /\ StartsWorker(queue)
    /\ isPrefetching' = TRUE
    /\ worker' = [IdleWorker EXCEPT !.pc = "loop"]
    /\ hist' = [hist EXCEPT !.runs = @ + 1]
    /\ ret' = NoRet
    /\ UNCHANGED cacheVarsButRet
    /\ UNCHANGED <<queue, prefetchedKeys, pnow>>

\* one turn of the while loop, lines 184-202, up to the await
WorkerLoop ==
    /\ worker.pc = "loop"
    /\ IF queue = <<>>
       THEN /\ isPrefetching' = FALSE
            /\ worker' = IdleWorker
            /\ queue' = queue
            /\ hist' = [hist EXCEPT !.runs = @ - 1]
       ELSE /\ queue' = Tail(queue)
            /\ isPrefetching' = isPrefetching
            /\ hist' = hist
            /\ IF QueueTimedOut(Head(queue), now)
               THEN worker' = worker
               ELSE worker' = [pc |-> "fetch", item |-> Shifted(Head(queue)),
                               start |-> now,
                               due |-> now + RaceDelay(Head(queue).timeout)]
    /\ ret' = NoRet
    /\ UNCHANGED cacheVarsButRet
    /\ UNCHANGED <<prefetchedKeys, pnow>>

AfterRaceAlways(c, k, v, won) == SetCachedCache(c, k, v, now)

\* lines 197-204: setCached runs with the value the race resolved with, and
\* the race takes the first of fetchFn() and the timeout to settle
AfterRace(c, k, v, won) == IF won THEN SetCachedCache(c, k, v, now) ELSE c

\* fetchFn() resolves with v before the timeout: lines 204-205, then line 212
FetchResolves(v) ==
    /\ worker.pc = "fetch"
    /\ cache' = AfterRace(cache, worker.item.key, v, TRUE)
    /\ retryCount' = Del(retryCount, worker.item.key)
    /\ prefetchedKeys' = prefetchedKeys \cup {worker.item.key}
    /\ worker' = [IdleWorker EXCEPT !.pc = "pause", !.due = now + PauseMs]
    /\ ret' = NoRet
    /\ UNCHANGED <<now, ticks, mounted, cfg, rxVars, retryTimeouts, calls, lastWrite,
                   meddled>>
    /\ UNCHANGED <<queue, isPrefetching, pnow, hist>>

Escapes == IdleWorker

\* lines 207-212: the catch logs the error, and the turn goes to its pause
Caught == [IdleWorker EXCEPT !.pc = "pause", !.due = now + PauseMs]

\* fetchFn() rejects before the timeout: line 208, then line 212
FetchRejects ==
    /\ worker.pc = "fetch"
    /\ worker' = Caught
    /\ ret' = NoRet
    /\ UNCHANGED cacheVarsButRet
    /\ UNCHANGED <<queue, isPrefetching, prefetchedKeys, pnow, hist>>

\* the timeout of lines 199-201 fires first: line 208, then line 212
RaceTimesOut ==
    /\ worker.pc = "fetch"
    /\ now >= worker.due
    /\ worker' = Caught
    /\ hist' = [hist EXCEPT !.late = @ \cup {worker.item.key}]
    /\ ret' = NoRet
    /\ UNCHANGED cacheVarsButRet
    /\ UNCHANGED <<queue, isPrefetching, prefetchedKeys, pnow>>

\* fetchFn() of an item whose race the timeout won resolves with v: the
\* race is settled, nothing listens to the value
LateFetchResolves(k, v) ==
    /\ worker.pc # "loop"
    /\ k \in hist.late
    /\ hist' = [hist EXCEPT !.late = @ \ {k}, !.ignored = @ \cup {k}]
    /\ cache' = AfterRace(cache, k, v, FALSE)
    /\ ret' = NoRet
    /\ UNCHANGED <<now, ticks, mounted, cfg, rxVars, retryCount, retryTimeouts, calls,
                   lastWrite, meddled>>
    /\ UNCHANGED <<queue, isPrefetching, prefetchedKeys, worker, pnow>>

\* the pause of line 212 ends: back to the while test
PauseEnds ==
    /\ worker.pc = "pause"
    /\ now >= worker.due
    /\ worker' = [IdleWorker EXCEPT !.pc = "loop"]
    /\ ret' = NoRet
    /\ UNCHANGED cacheVarsButRet
    /\ UNCHANGED <<queue, isPrefetching, prefetchedKeys, pnow, hist>>

PrefetchNowRethrows == [settled |-> "rejected", value |-> Null]

\* lines 238-241: the catch of prefetchNow
PrefetchNowCatch == [settled |-> "resolved", value |-> Null]

\* prefetchNow(key, fetchFn), lines 226-234: up to the await
PrefetchNow(k) ==
    /\ mounted
    /\ worker.pc # "loop"
    /\ pnow.pc = "idle"
    /\ cache' = GetCachedCache(cache, k, now)
    /\ IF Truthy(GetCachedValue(cache, k, now))
       THEN /\ pnow' = pnow
            /\ hist' = hist
            /\ ret' = [op |-> "prefetchNow", key |-> k, fetch |-> "none",
                       settled |-> "resolved",
                       value |-> GetCachedValue(cache, k, now)]
       ELSE /\ pnow' = [pc |-> "await", key |-> k]
            /\ hist' = [hist EXCEPT !.fetches = @ + 1]
            /\ ret' = NoRet
    /\ UNCHANGED <<now, ticks, mounted, cfg, rxVars, retryCount, retryTimeouts, calls,
                   lastWrite, meddled>>
    /\ UNCHANGED <<queue, isPrefetching, prefetchedKeys, worker>>

\* fetchFn() of prefetchNow resolves with v: lines 235-237
PrefetchNowResolves(v) ==
    /\ worker.pc # "loop"
    /\ pnow.pc = "await"
    /\ cache' = SetCachedCache(cache, pnow.key, v, now)
    /\ retryCount' = Del(retryCount, pnow.key)
    /\ prefetchedKeys' = prefetchedKeys \cup {pnow.key}
    /\ pnow' = IdleNow
    /\ ret' = [op |-> "prefetchNow", key |-> pnow.key, fetch |-> "resolved",
               settled |-> "resolved", value |-> v]
    /\ UNCHANGED <<now, ticks, mounted, cfg, rxVars, retryTimeouts, calls, lastWrite,
                   meddled>>
    /\ UNCHANGED <<queue, isPrefetching, worker, hist>>

\* fetchFn() of prefetchNow rejects: lines 238-241
PrefetchNowRejects ==
    /\ worker.pc # "loop"
    /\ pnow.pc = "await"
    /\ pnow' = IdleNow
    /\ ret' = [op |-> "prefetchNow", key |-> pnow.key, fetch |-> "rejected",
               settled |-> PrefetchNowCatch.settled,
               value |-> PrefetchNowCatch.value]
    /\ UNCHANGED cacheVarsButRet
    /\ UNCHANGED <<queue, isPrefetching, prefetchedKeys, worker, hist>>

\* clearPrefetchQueue()
ClearPrefetchQueue ==
    /\ mounted
    /\ worker.pc # "loop"
    /\ queue' = <<>>
    /\ ret' = NoRet
    /\ UNCHANGED cacheVarsButRet
    /\ UNCHANGED <<isPrefetching, prefetchedKeys, worker, pnow, hist>>

InitPrefetch ==
    /\ InitCommon
    /\ cfg = PrefetchCacheConfig
    /\ queue = <<>>
    /\ isPrefetching = FALSE
    /\ prefetchedKeys = {}
    /\ worker = IdleWorker
    /\ pnow = IdleNow
    /\ hist = [stamp |-> 0, fetches |-> 0, runs |-> 0, late |-> {},
               ignored |-> {}]

NextPrefetch ==
    \/ \E t \in PfTimes : TickPrefetch(t)
    \/ \E k \in PfKeys, p \in PriorityInputs, t \in TimeoutInputs,
          bg \in BOOLEAN, ar \in BOOLEAN :
          hist.stamp < MaxSchedules /\ SchedulePrefetch(k, p, t, bg, ar)
    \/ ProcessPrefetchQueue
    \/ IntervalTick
    \/ WorkerLoop
    \/ \E v \in Values : FetchResolves(v)
    \/ FetchRejects
    \/ RaceTimesOut
    \/ \E k \in PfKeys, v \in Values : LateFetchResolves(k, v)
    \/ PauseEnds
    \/ \E k \in PfKeys : hist.fetches < MaxNowCalls /\ PrefetchNow(k)
    \/ \E v \in Values : PrefetchNowResolves(v)
    \/ PrefetchNowRejects
    \/ ClearPrefetchQueue

SpecPrefetch == InitPrefetch /\ [][NextPrefetch]_vars

\* the queue and its worker alone: three keys, three priorities, no
\* explicit timeout, the clock in steps of the pause.  A fetch ends by
\* FetchResolves or FetchRejects: for the queue, one that loses its race
\* against the timeout is one that rejects
NextQueue ==
    \/ \E d \in QueueSteps : ticks < MaxQueueTicks /\ TickPrefetch(now + d)
    \/ \E k \in QueueKeys, p \in QueuePriorities, bg \in BOOLEAN :
          hist.stamp < MaxQueueSchedules
          /\ SchedulePrefetch(k, p, Undefined, bg, FALSE)
    \/ ProcessPrefetchQueue
    \/ IntervalTick
    \/ WorkerLoop
    \/ \E v \in QueueValues : FetchResolves(v)
    \/ FetchRejects
    \/ PauseEnds
    \/ ClearPrefetchQueue

SpecQueue == InitPrefetch /\ [][NextQueue]_vars

\* the single-flight worker and every way into processPrefetchQueue:
\* schedulePrefetch in the foreground, prefetchBatch, the interval (which
\* finds work when schedulePrefetch ran in the background) and the owner's
\* own calls
NextWorker ==
    \/ \E d \in QueueSteps : ticks < MaxWorkerTicks /\ TickPrefetch(now + d)
    \/ \E k \in WorkerKeys, p \in WorkerPriorities, bg \in BOOLEAN :
          hist.stamp < MaxWorkerSchedules
          /\ SchedulePrefetch(k, p, Undefined, bg, FALSE)
    \/ \E items \in Batches :
          hist.stamp + Len(items) <= MaxWorkerSchedules /\ PrefetchBatch(items)
    \/ ProcessPrefetchQueue
    \/ IntervalTick
    \/ WorkerLoop
    \/ \E v \in QueueValues : FetchResolves(v)
    \/ FetchRejects
    \/ RaceTimesOut
    \/ PauseEnds
    \/ ClearPrefetchQueue

SpecWorker == InitPrefetch /\ [][NextWorker]_vars

\* the timers of the run fire: the clock reaches the deadline the run is
\* waiting for (the timeout of the race, the end of the pause)
TickToWorkerDeadline ==
    /\ worker.pc \in {"fetch", "pause"}
    /\ TickPrefetch(worker.due)

\* the queue filled in the background only, with nobody calling
\* processPrefetchQueue: the interval is the one thing that starts a run.
\* A fetchFn may never settle: FetchResolves and FetchRejects need not happen
NextBackground ==
    \/ TickToWorkerDeadline
    \/ \E k \in WorkerKeys, p \in WorkerPriorities, t \in TimeoutInputs :
          hist.stamp < MaxLiveSchedules
          /\ SchedulePrefetch(k, p, t, TRUE, FALSE)
    \/ IntervalTick
    \/ WorkerLoop
    \/ \E v \in QueueValues : FetchResolves(v)
    \/ FetchRejects
    \/ RaceTimesOut
    \/ PauseEnds
    \/ ClearPrefetchQueue

\* setInterval and setTimeout callbacks run when they are due, and the
\* synchronous stretch of the loop runs to its await
SpecBackground ==
    /\ InitPrefetch
    /\ [][NextBackground]_vars
    /\ WF_vars(TickToWorkerDeadline)
    /\ WF_vars(IntervalTick)
    /\ WF_vars(WorkerLoop)
    /\ WF_vars(RaceTimesOut)
    /\ WF_vars(PauseEnds)

-----------------------------------------------------------------------------
(* ReactiveStreamService.createSearchStream.  A query is a sequence of     *)
(* characters.  search holds the operators of results$ once it is          *)
(* subscribed: pending and lastTime are debounceTime's last value and its  *)
(* arrival, previous is the value distinctUntilChanged compares with (each *)
(* a sequence of at most one query), runs are the searchFn calls of        *)
(* switchMap (live: the inner subscription is the current one), delivered  *)
(* is what shareReplay handed to the subscribers.  lastRaw is history: the *)
(* query last published, as published; so is overtaken in a run: a later   *)
(* query passed the debounce while the run was unresolved.                 *)

LowerCase(ch) == IF ch = "M" THEN "m" ELSE ch

\* String.prototype.toLowerCase
ToLowerCase(q) == [i \in 1..Len(q) |-> LowerCase(q[i])]

RECURSIVE TrimStart(_)
TrimStart(q) == IF q # <<>> /\ Head(q) = " " THEN TrimStart(Tail(q)) ELSE q

RECURSIVE TrimEnd(_)
TrimEnd(q) ==
    IF q # <<>> /\ q[Len(q)] = " " THEN TrimEnd(SubSeq(q, 1, Len(q) - 1)) ELSE q

\* String.prototype.trim
Trim(q) == TrimEnd(TrimStart(q))

AsPublished(q) == q

\* line 269: query.trim().toLowerCase()
Normalized(q) == ToLowerCase(Trim(q))

PassesAlways(prev, q) == TRUE

\* distinctUntilChanged(): the value differs from the one before it
DistinctUntilChanged(prev, q) == prev = <<>> \/ prev[1] # q

\* line 275: query.length > 0
NonEmpty(q) == Len(q) > 0

\* mergeMap in the place of switchMap: the earlier subscriptions are kept
MergeTo(runs, q) ==
    Append([i \in 1..Len(runs) |->
               [runs[i] EXCEPT !.overtaken = @ \/ runs[i].state = "pending"]],
           [query |-> q, state |-> "pending", live |-> TRUE,
            overtaken |-> FALSE])

\* switchMap: the earlier inner subscriptions are dropped, searchFn(q) starts
SwitchTo(runs, q) ==
    Append([i \in 1..Len(runs) |->
               [runs[i] EXCEPT !.live = FALSE,
                               !.overtaken = @ \/ runs[i].state = "pending"]],
           [query |-> q, state |-> "pending", live |-> TRUE,
            overtaken |-> FALSE])

\* the clock advances by d
TickStream(d) ==
    /\ now' = now + d
    /\ ticks' = ticks + 1
    /\ ret' = NoRet
    /\ UNCHANGED hookVars
    /\ UNCHANGED rxVars

\* results$.subscribe(...): shareReplay connects the operators to search$
SearchSubscribe ==
    /\ ~search.subscribed
    /\ search' = [search EXCEPT !.subscribed = TRUE]
    /\ ret' = NoRet
    /\ UNCHANGED <<now, ticks, hookVars, epics, autoSave, retryable, retryEpic, scroll>>

\* search$.next(q): lines 269-271 (a Subject without observers drops it)
SearchNext(q) ==
    /\ search' = IF search.subscribed
                 THEN [search EXCEPT !.pending = <<Normalized(q)>>,
                                     !.lastTime = now,
                                     !.lastRaw = <<q>>]
                 ELSE search
    /\ ret' = NoRet
    /\ UNCHANGED <<now, ticks, hookVars, epics, autoSave, retryable, retryEpic, scroll>>

\* debounceTime emits its last value: lines 271-279
SearchDebounceEmits ==
    /\ search.pending # <<>>
    /\ now >= search.lastTime + SearchDebounceMs
    /\ LET q == search.pending[1]
       IN search' =
             IF ~DistinctUntilChanged(search.previous, q)
             THEN [search EXCEPT !.pending = <<>>]
             ELSE IF ~NonEmpty(q)
                  THEN [search EXCEPT !.pending = <<>>, !.previous = <<q>>]
                  ELSE [search EXCEPT !.pending = <<>>, !.previous = <<q>>,
                                      !.runs = SwitchTo(@, q)]
    /\ ret' = NoRet
    /\ UNCHANGED <<now, ticks, hookVars, epics, autoSave, retryable, retryEpic, scroll>>

\* searchFn(q) of run i settles: line 278 (ok: resolved, else null), and
\* switchMap forwards it if the run is still the current one
SearchSettles(i, ok) ==
    /\ i \in 1..Len(search.runs)
    /\ search.runs[i].state = "pending"
    /\ search' = [search EXCEPT
                    !.runs[i].state = IF ok THEN "resolved" ELSE "rejected",
                    !.delivered = IF search.runs[i].live
                                  THEN Append(@, [run |-> i, ok |-> ok])
                                  ELSE @]
    /\ ret' = NoRet
    /\ UNCHANGED <<now, ticks, hookVars, epics, autoSave, retryable, retryEpic, scroll>>

InitSearch ==
    /\ InitCommon
    /\ InitPrefetchIdle
    /\ cfg \in {PrefetchCacheConfig}

NextSearch ==
    \/ \E d \in SearchSteps : ticks < MaxSearchTicks /\ TickStream(d)
    \/ SearchSubscribe
    \/ \E q \in Queries : SearchNext(q)
    \/ SearchDebounceEmits
    \/ \E i \in 1..MaxSearchTicks, ok \in BOOLEAN : SearchSettles(i, ok)

SpecSearch == InitSearch /\ [][NextSearch]_vars

-----------------------------------------------------------------------------
(* createAutoSaveStream and the useAutoSave hook that subscribes to it.     *)
(* pending is the value debounceTime holds and lastTime when it arrived;    *)
(* runs are the saveFn calls, each with its argument; emitted is what       *)
(* status$ handed to its subscriber; status is the state of the hook and    *)
(* idleDue its pending setTimeout(() => setStatus('idle')) timers.          *)
(* lastRaw is history: the payload last published to save$.                 *)

\* line 443: map(() => 'saving' as const)
MapToSaving(data) == "saving"

\* switchMap((data) => saveFn(data)...): the earlier call is dropped
SwitchSave(runs, data) ==
    Append([i \in 1..Len(runs) |-> [runs[i] EXCEPT !.live = FALSE]],
           [arg |-> data, state |-> "pending", live |-> TRUE])

\* lines 449-450: what the settled promise of saveFn becomes
SettledStatus(ok) == IF ok THEN "saved" ELSE "error"

\* useAutoSave's effect: status$.subscribe (shareReplay connects to save$)
AutoSaveSubscribe ==
    /\ ~autoSave.subscribed
    /\ autoSave' = [autoSave EXCEPT !.subscribed = TRUE]
    /\ ret' = NoRet
    /\ UNCHANGED <<now, ticks, hookVars, epics, search, retryable, retryEpic, scroll>>

\* save(data): save$.next(data), lines 442-445
AutoSaveNext(data) ==
    /\ autoSave' = IF autoSave.subscribed
                   THEN [autoSave EXCEPT !.pending = <<MapToSaving(data)>>,
                                         !.lastTime = now,
                                         !.lastRaw = <<data>>]
                   ELSE autoSave
    /\ ret' = NoRet
    /\ UNCHANGED <<now, ticks, hookVars, epics, search, retryable, retryEpic, scroll>>

\* debounceTime emits its last value and switchMap calls saveFn with it
AutoSaveDebounceEmits ==
    /\ autoSave.pending # <<>>
    /\ now >= autoSave.lastTime + AutoSaveDebounceMs
    /\ autoSave' = [autoSave EXCEPT !.pending = <<>>,
                                    !.runs = SwitchSave(@, autoSave.pending[1])]
    /\ ret' = NoRet
    /\ UNCHANGED <<now, ticks, hookVars, epics, search, retryable, retryEpic, scroll>>

\* saveFn of run i settles; the hook's next handler: lines 233-240
AutoSaveSettles(i, ok) ==
    /\ i \in 1..Len(autoSave.runs)
    /\ autoSave.runs[i].state = "pending"
    /\ autoSave' =
          IF autoSave.runs[i].live
          THEN [autoSave EXCEPT
                   !.runs[i].state = IF ok THEN "resolved" ELSE "rejected",
                   !.emitted = Append(@, SettledStatus(ok)),
                   !.status = SettledStatus(ok),
                   !.idleDue = IF SettledStatus(ok) = "saved"
                               THEN @ \cup {now + SavedDisplayMs} ELSE @]
          ELSE [autoSave EXCEPT
                   !.runs[i].state = IF ok THEN "resolved" ELSE "rejected"]
    /\ ret' = NoRet
    /\ UNCHANGED <<now, ticks, hookVars, epics, search, retryable, retryEpic, scroll>>

\* useReactive.ts line 238: the timer set on 'saved' fires
AutoSaveIdleTimer(t) ==
    /\ t \in autoSave.idleDue
    /\ now >= t
    /\ autoSave' = [autoSave EXCEPT !.status = "idle", !.idleDue = @ \ {t}]
    /\ ret' = NoRet
    /\ UNCHANGED <<now, ticks, hookVars, epics, search, retryable, retryEpic, scroll>>

InitAutoSave ==
    /\ InitCommon
    /\ InitPrefetchIdle
    /\ cfg \in {PrefetchCacheConfig}

NextAutoSave ==
    \/ \E d \in SaveSteps : ticks < MaxSaveTicks /\ TickStream(d)
    \/ AutoSaveSubscribe
    \/ \E data \in Payloads : AutoSaveNext(data)
    \/ AutoSaveDebounceEmits
    \/ \E i \in 1..MaxSaveTicks, ok \in BOOLEAN : AutoSaveSettles(i, ok)
    \/ \E t \in autoSave.idleDue : AutoSaveIdleTimer(t)

SpecAutoSave == InitAutoSave /\ [][NextAutoSave]_vars

-----------------------------------------------------------------------------
(* createRetryableStream.  pc is where the stream is: "none" (not created), *)
(* "cold" (created, never subscribed), "running" (operationFn() in flight), *)
(* "waiting" (the delay timer of retry is pending, until due), "done"       *)
(* (completed).  soFar is the counter retry keeps; replay is the buffer of  *)
(* shareReplay(1); received maps a subscriber to the notifications it got.  *)
(* invoked, failures and late are history: the calls of operationFn, the    *)
(* rejected ones, and the subscribers that came after the end.              *)

RetriesInclusive(soFar, count) == soFar <= count

\* retry({count}): resubscribe while soFar++ < count
RetriesAgain(soFar, count) == soFar < count

\* next(v) followed by complete(), to every subscriber
Finish(received, v) ==
    [s \in DOMAIN received |-> received[s] \o <<v, "complete">>]

\* createRetryableStream(operationFn, retries, delayMs)
RetryableCreate(n, d) ==
    /\ retryable.pc = "none"
    /\ retryable' = [retryable EXCEPT !.pc = "cold", !.retries = n,
                                      !.delayMs = d]
    /\ ret' = NoRet
    /\ UNCHANGED <<now, ticks, hookVars, epics, search, autoSave, retryEpic, scroll>>

\* stream.subscribe(s): the first one connects and calls operationFn(); one
\* made after the end gets the replayed value and the completion
RetryableSubscribe(s) ==
    /\ retryable.pc # "none"
    /\ s \notin DOMAIN retryable.received
    /\ retryable' =
          IF retryable.pc = "cold"
          THEN [retryable EXCEPT !.pc = "running", !.invoked = 1,
                                 !.received = Put(@, s, <<>>)]
          ELSE IF retryable.pc = "done"
               THEN [retryable EXCEPT
                        !.received = Put(@, s, retryable.replay
                                                  \o <<"complete">>),
                        !.late = @ \cup {s}]
               ELSE [retryable EXCEPT !.received = Put(@, s, <<>>)]
    /\ ret' = NoRet
    /\ UNCHANGED <<now, ticks, hookVars, epics, search, autoSave, retryEpic, scroll>>

\* operationFn() resolves: lines 365-368
RetryableResolves(v) ==
    /\ retryable.pc = "running"
    /\ retryable' = [retryable EXCEPT !.pc = "done", !.replay = <<v>>,
                                      !.received = Finish(@, v)]
    /\ ret' = NoRet
    /\ UNCHANGED <<now, ticks, hookVars, epics, search, autoSave, retryEpic, scroll>>

\* operationFn() rejects: lines 369-380
RetryableRejects ==
    /\ retryable.pc = "running"
    /\ retryable' =
          IF RetriesAgain(retryable.soFar, retryable.retries)
          THEN [retryable EXCEPT !.pc = "waiting",
                                 !.soFar = @ + 1,
                                 !.failures = @ + 1,
                                 !.due = now + retryable.delayMs]
          ELSE [retryable EXCEPT !.pc = "done",
                                 !.soFar = @ + 1,
                                 !.failures = @ + 1,
                                 !.replay = <<Null>>,
                                 !.received = Finish(@, Null)]
    /\ ret' = NoRet
    /\ UNCHANGED <<now, ticks, hookVars, epics, search, autoSave, retryEpic, scroll>>

\* the delay timer of retry fires: operationFn() is called again
RetryableTimerFires ==
    /\ retryable.pc = "waiting"
    /\ now >= retryable.due
    /\ retryable' = [retryable EXCEPT !.pc = "running", !.invoked = @ + 1]
    /\ ret' = NoRet
    /\ UNCHANGED <<now, ticks, hookVars, epics, search, autoSave, retryEpic, scroll>>

InitRetryable ==
    /\ InitCommon
    /\ InitPrefetchIdle
    /\ cfg \in {PrefetchCacheConfig}

NextRetryable ==
    \/ \E d \in RetryableSteps : ticks < MaxRetryableTicks /\ TickStream(d)
    \/ \E n \in RetryCounts, d \in RetryDelays : RetryableCreate(n, d)
    \/ \E s \in Subscribers : RetryableSubscribe(s)
    \/ \E v \in QueueValues : RetryableResolves(v)
    \/ RetryableRejects
    \/ RetryableTimerFires

SpecRetryable == InitRetryable /\ [][NextRetryable]_vars

-----------------------------------------------------------------------------
(* retryFailedOperationsEpic, with a store that answers every re-dispatched *)
(* operation by its ...Failed action.  timer is the inner subscription of   *)
(* switchMap: the failed action it was made for and when timer(2000) is     *)
(* due; inflight are the re-dispatched operations not yet answered.         *)
(* reported, redispatched and gaveUp are history: the failures the          *)
(* application reported itself, the re-dispatches per failed action type,   *)
(* and whether transactions/operationGaveUp was emitted.  retry(3) and      *)
(* catchError (lines 99-103) act on an error of timer(2000).pipe(map(...)), *)
(* which has none to give: the timer emits once and completes, and the      *)
(* projection of map does not throw.  They have no step here.               *)

\* lines 84-88
EpicFilter(type) ==
    \/ type = "transactions/createTransactionFailed"
    \/ type = "transactions/updateTransactionFailed"
    \/ type = "transactions/deleteTransactionFailed"

\* line 95: action.type.replace('Failed', '')
RetryType(type) ==
    CASE type = "transactions/createTransactionFailed"
            -> "transactions/createTransaction"
      [] type = "transactions/deleteTransactionFailed"
            -> "transactions/deleteTransaction"
      [] type = "transactions/fetchTransactionsFailed"
            -> "transactions/fetchTransactions"

\* an action reaches the epic: lines 84-92 (switchMap drops the timer that
\* was pending for an earlier failure)
EpicOnAction(e, type) ==
    IF EpicFilter(type)
    THEN [e EXCEPT !.timer = <<[type |-> type, due |-> now + EpicDelayMs]>>]
    ELSE e

\* the application dispatches a ...Failed action of its own
EpicFailureReported(type) ==
    /\ type \notin retryEpic.reported
    /\ retryEpic' = [EpicOnAction(retryEpic, type) EXCEPT
                       !.reported = @ \cup {type}]
    /\ ret' = NoRet
    /\ UNCHANGED <<now, ticks, hookVars, epics, search, autoSave, retryable, scroll>>

\* timer(2000) fires: the operation is dispatched again, lines 93-97
EpicTimerFires ==
    /\ retryEpic.timer # <<>>
    /\ now >= retryEpic.timer[1].due
    /\ LET type == retryEpic.timer[1].type
       IN retryEpic' = [retryEpic EXCEPT
                          !.timer = <<>>,
                          !.inflight = @ \cup {RetryType(type)},
                          !.redispatched[type] = @ + 1]
    /\ ret' = NoRet
    /\ UNCHANGED <<now, ticks, hookVars, epics, search, autoSave, retryable, scroll>>

\* the store answers a re-dispatched operation by its ...Failed action
EpicStoreAnswersFailed(type) ==
    /\ RetryType(type) \in retryEpic.inflight
    /\ retryEpic' = [EpicOnAction(retryEpic, type) EXCEPT
                       !.inflight = @ \ {RetryType(type)}]
    /\ ret' = NoRet
    /\ UNCHANGED <<now, ticks, hookVars, epics, search, autoSave, retryable, scroll>>

InitEpic ==
    /\ InitCommon
    /\ InitPrefetchIdle
    /\ cfg \in {PrefetchCacheConfig}

NextEpic ==
    \/ \E d \in EpicSteps : ticks < MaxEpicTicks /\ TickStream(d)
    \/ \E type \in ActionTypes : EpicFailureReported(type)
    \/ EpicTimerFires
    \/ \E type \in ActionTypes : EpicStoreAnswersFailed(type)

SpecEpic == InitEpic /\ [][NextEpic]_vars

-----------------------------------------------------------------------------
(* validateTransactionEpic and searchTransactionsEpic.  validateAlive and  *)
(* searchAlive say whether the epic is still subscribed to action$;        *)
(* debounce is the value debounceTime(500) holds back, with the time it is *)
(* due; emitted are the actions the epics gave to the store; sent counts   *)
(* the actions dispatched.                                                 *)

\* lines 179-189: the errors the validation collects
ValidationErrors(t) ==
    {e \in {"description", "value", "category"} :
        \/ e = "description" /\ (t.description = <<>> \/ Len(Trim(t.description)) = 0)
        \/ e = "value" /\ (t.value = 0 \/ t.value <= 0)
        \/ e = "category" /\ t.category = ""}

\* lines 191-201: the action the validation yields
Validated(t) ==
    IF ValidationErrors(t) # {}
    THEN [type |-> "transactions/validationFailed"]
    ELSE [type |-> "transactions/createTransaction"]

\* line 179: transaction.description of a null payload is a TypeError
ValidateThrows(p) == ~p.isObject

\* line 26: query.trim() of a payload that is no string is a TypeError
SearchThrows(q) == ~q.isString

\* dispatch({type: 'transactions/validateAndCreate', payload: p}).  The
\* catchError of lines 203-206 sits on the outer pipe: it replaces the epic
\* by of(validationError), and the subscription to action$ is gone
DispatchValidateAndCreate(p) ==
    /\ epics.sent < MaxStoreActions
    /\ epics' =
          IF ~epics.validateAlive
          THEN [epics EXCEPT !.sent = @ + 1]
          ELSE IF ValidateThrows(p)
               THEN [epics EXCEPT
                       !.sent = @ + 1,
                       !.emitted = Append(@, [type |-> "transactions/validationError"]),
                       !.validateAlive = FALSE]
               ELSE [epics EXCEPT !.sent = @ + 1,
                                  !.emitted = Append(@, Validated(p))]
    /\ ret' = NoRet
    /\ UNCHANGED <<now, ticks, hookVars, search, autoSave, retryable, retryEpic, scroll>>

\* dispatch({type: 'transactions/setSearchQuery', payload: q}): lines 24-25
DispatchSetSearchQuery(q) ==
    /\ epics.sent < MaxStoreActions
    /\ epics' =
          IF ~epics.searchAlive
          THEN [epics EXCEPT !.sent = @ + 1]
          ELSE [epics EXCEPT
                  !.sent = @ + 1,
                  !.debounce = <<[payload |-> q, due |-> now + EpicDebounceMs]>>]
    /\ ret' = NoRet
    /\ UNCHANGED <<now, ticks, hookVars, search, autoSave, retryable, retryEpic, scroll>>

\* debounceTime(500) lets its value go: lines 26-35, with the catchError
\* of lines 32-35 on the outer pipe
SearchDebounceFires ==
    /\ epics.debounce # <<>>
    /\ now >= epics.debounce[1].due
    /\ LET q == epics.debounce[1].payload
       IN epics' =
             IF SearchThrows(q)
             THEN [epics EXCEPT
                     !.debounce = <<>>,
                     !.emitted = Append(@, [type |-> "transactions/searchError"]),
                     !.searchAlive = FALSE]
             ELSE IF Len(Trim(q.text)) > 0
                  THEN [epics EXCEPT
                          !.debounce = <<>>,
                          !.emitted = Append(@, [type |-> "transactions/searchTransactions"])]
                  ELSE [epics EXCEPT !.debounce = <<>>]
    /\ ret' = NoRet
    /\ UNCHANGED <<now, ticks, hookVars, search, autoSave, retryable, retryEpic, scroll>>

InitStore ==
    /\ InitCommon
    /\ InitPrefetchIdle
    /\ cfg \in {PrefetchCacheConfig}

NextStore ==
    \/ \E d \in StoreSteps : ticks < MaxStoreTicks /\ TickStream(d)
    \/ \E p \in ValidatePayloads : DispatchValidateAndCreate(p)
    \/ \E q \in SearchPayloads : DispatchSetSearchQuery(q)
    \/ SearchDebounceFires

SpecStore == InitStore /\ [][NextStore]_vars

-----------------------------------------------------------------------------
(* createInfiniteScrollStream.  throttledUntil is the end of the window in  *)
(* which throttleTime drops events; loads are the loadMoreFn calls, each    *)
(* with its state and whether switchMap still listens to it; emitted counts *)
(* what loadMore$ handed to its subscribers.  passed is history: the events *)
(* throttleTime let through.                                                *)

ExceedsThreshold(ev) ==
    /\ ev.contentHeight # 0
    /\ (ev.scrollY + ev.viewportHeight) * ThresholdDen
          > ThresholdNum * ev.contentHeight

\* lines 338-339: (scrollY + viewportHeight) / contentHeight >= threshold,
\* for contentHeight >= 0: x / 0 is Infinity for x > 0 and NaN for x = 0,
\* and NaN >= threshold is false
MeetsThreshold(ev) ==
    IF ev.contentHeight = 0
    THEN ev.scrollY + ev.viewportHeight > 0
    ELSE (ev.scrollY + ev.viewportHeight) * ThresholdDen
            >= ThresholdNum * ev.contentHeight

\* throttleTime(200): an event is let through unless the window is open
ThrottleLetsThrough == now >= scroll.throttledUntil

\* switchMap(() => loadMoreFn()...): the earlier call is dropped
SwitchLoad(loads) ==
    Append([i \in 1..Len(loads) |-> [loads[i] EXCEPT !.live = FALSE]],
           [state |-> "pending", live |-> TRUE])

\* loadMore$.subscribe(...): shareReplay connects the operators to scroll$
ScrollSubscribe ==
    /\ ~scroll.subscribed
    /\ scroll' = [scroll EXCEPT !.subscribed = TRUE]
    /\ ret' = NoRet
    /\ UNCHANGED <<now, ticks, hookVars, epics, search, autoSave, retryable, retryEpic>>

\* what scroll$.next(ev) makes of the stream: lines 335-346
AfterScrollNext(ev) ==
    IF ~scroll.subscribed \/ ~ThrottleLetsThrough
    THEN scroll
    ELSE IF MeetsThreshold(ev)
         THEN [scroll EXCEPT !.throttledUntil = now + ThrottleMs,
                             !.passed = Append(@, ev),
                             !.loads = SwitchLoad(@)]
         ELSE [scroll EXCEPT !.throttledUntil = now + ThrottleMs,
                             !.passed = Append(@, ev)]

\* scroll$.next(ev)
ScrollNext(ev) ==
    /\ scroll' = AfterScrollNext(ev)
    /\ ret' = NoRet
    /\ UNCHANGED <<now, ticks, hookVars, epics, search, autoSave, retryable, retryEpic>>

\* loadMoreFn() of call i settles: lines 343-349
ScrollLoadSettles(i) ==
    /\ i \in 1..Len(scroll.loads)
    /\ scroll.loads[i].state = "pending"
    /\ scroll' = [scroll EXCEPT
                    !.loads[i].state = "settled",
                    !.emitted = IF scroll.loads[i].live THEN @ + 1 ELSE @]
    /\ ret' = NoRet
    /\ UNCHANGED <<now, ticks, hookVars, epics, search, autoSave, retryable, retryEpic>>

(* useReactiveInfiniteScroll: the hook around the stream.  loading is the *)
(* hook's state; unmet is history: an event that meets the threshold was  *)
(* reported outside the throttle window while no load was in progress,    *)
(* and loadMoreFn has not been called since.                              *)

LoadInProgress ==
    \E i \in 1..Len(scroll.loads) :
        scroll.loads[i].state = "pending" /\ scroll.loads[i].live

\* onScroll(scrollY, contentHeight, viewportHeight): lines 135-140.
\* setLoading(true) comes before the event is handed to scroll$
OnScroll(ev) ==
    /\ scroll.subscribed
    /\ LET due == MeetsThreshold(ev) /\ ThrottleLetsThrough /\ ~LoadInProgress
           next == AfterScrollNext(ev)
       IN scroll' =
             IF scroll.loading
             THEN [scroll EXCEPT !.unmet = @ \/ due]
             ELSE [next EXCEPT
                     !.loading = TRUE,
                     !.unmet = (@ \/ due)
                                 /\ Len(next.loads) = Len(scroll.loads)]
    /\ ret' = NoRet
    /\ UNCHANGED <<now, ticks, hookVars, epics, search, autoSave, retryable, retryEpic>>

\* loadMoreFn() of call i settles and loadMore$ emits to the hook's
\* subscriber: lines 120-123
OnLoadMore(i) ==
    /\ i \in 1..Len(scroll.loads)
    /\ scroll.loads[i].state = "pending"
    /\ scroll' = [scroll EXCEPT
                    !.loads[i].state = "settled",
                    !.emitted = IF scroll.loads[i].live THEN @ + 1 ELSE @,
                    !.loading = IF scroll.loads[i].live THEN FALSE ELSE @]
    /\ ret' = NoRet
    /\ UNCHANGED <<now, ticks, hookVars, epics, search, autoSave, retryable, retryEpic>>

InitScroll ==
    /\ InitCommon
    /\ InitPrefetchIdle
    /\ cfg \in {PrefetchCacheConfig}

NextScroll ==
    \/ \E d \in ScrollSteps : ticks < MaxScrollTicks /\ TickStream(d)
    \/ ScrollSubscribe
    \/ \E ev \in ScrollEvents : ScrollNext(ev)
    \/ \E i \in 1..(MaxScrollTicks + 1) : ScrollLoadSettles(i)

SpecScroll == InitScroll /\ [][NextScroll]_vars

(* The hook while mounted.  Every loadMoreFn() settles in the end.         *)
NextScrollHook ==
    \/ \E d \in ScrollSteps : ticks < MaxHookTicks /\ TickStream(d)
    \/ ScrollSubscribe
    \/ \E ev \in ScrollEvents : OnScroll(ev)
    \/ \E i \in 1..(MaxHookTicks + 1) : OnLoadMore(i)

SpecScrollHook ==
    /\ InitScroll
    /\ [][NextScrollHook]_vars
    /\ \A i \in 1..(MaxHookTicks + 1) : WF_vars(OnLoadMore(i))

-----------------------------------------------------------------------------
(* Claims about the retry executor (SpecRetry)                              *)

\* chain c is the only call made on its key, and the owner has not
\* invalidated or written that key
Alone(c) ==
    /\ calls[c].key \notin meddled
    /\ \A b \in CallIds \ {c} : calls[b].pc = "new" \/ calls[b].key # calls[c].key

\* C1: the promise returned by executeWithRetry stays pending while retries
\* remain: it resolves only when an attempt succeeded, it rejects only when
\* the attempts are exhausted, and it is never rejected by a failure that
\* schedules a retry.
C1_PendingWhileRetriesRemain ==
    \A c \in CallIds :
        /\ calls[c].pc \in {"awaiting", "timer"} => calls[c].promise = "pending"
        /\ calls[c].promise = "rejected" => calls[c].outcome = "exhausted"
        /\ calls[c].promise = "resolved" => calls[c].outcome = "succeeded"

\* C2: with maxRetries = 3 and no other call on the key, an action that
\* always fails is invoked exactly 4 times before the failure is final (no
\* retry is scheduled after the 4th failure, none is given up earlier), and
\* the cache never holds an entry for the key.
C2_RetryBound ==
    cfg.maxRetries = 3 =>
        \A c \in CallIds :
            (calls[c].pc # "new" /\ Alone(c) /\ calls[c].outcome # "succeeded")
            => /\ calls[c].invoked <= 4
               /\ calls[c].outcome = "exhausted" => calls[c].fails = 4
               /\ calls[c].fails = 4 => calls[c].outcome = "exhausted"
               /\ ~Has(cache, calls[c].key)

C2_Witness ==
    /\ cfg.maxRetries = 3
    /\ \E c \in CallIds :
          /\ Alone(c)
          /\ calls[c].outcome = "exhausted"
          /\ calls[c].invoked = 4
          /\ calls[c].fails = 4

\* C3: an action that fails twice and succeeds on the third attempt makes
\* the call resolve with the result, leaves the result in the cache under
\* the key and clears the attempt count of the key.
C3_ThirdAttemptResolves ==
    \A c \in CallIds :
        (calls[c].outcome = "succeeded" /\ calls[c].fails = 2 /\ Alone(c))
        => /\ calls[c].promise = "resolved"
           /\ Has(cache, calls[c].key)
           /\ calls[c].value = cache[calls[c].key].data
           /\ ~Has(retryCount, calls[c].key)

-----------------------------------------------------------------------------
(* Claims about the TTL cache (SpecTtl)                                     *)

\* the entries written and not yet past their time to live
LiveWrites == {k \in DOMAIN lastWrite : now <= lastWrite[k].at + cfg.ttl}

\* C4: after setCached(key, value) at time t, getCached(key) returns value at
\* every time now <= t + ttl; at a time now > t + ttl it returns null and
\* removes the entry, and getCacheStats() counts as valid exactly the entries
\* still within their time to live.
C4_TtlExpiry ==
    /\ ret.op = "getCached" =>
          IF ret.key \in LiveWrites
          THEN ret.value = lastWrite[ret.key].value
          ELSE ret.value = Null /\ ~Has(cache, ret.key)
    /\ ret.op = "stats" => ret.validEntries = Cardinality(LiveWrites)

C4_Witness ==
    /\ ret.op = "getCached"
    /\ Has(lastWrite, ret.key)
    /\ now > lastWrite[ret.key].at + cfg.ttl
    /\ cfg.ttl > 0
    /\ ret.value = Null
    /\ \E k \in LiveWrites : k # ret.key

-----------------------------------------------------------------------------
(* Claims about the prefetch queue (SpecQueue)                              *)

\* the queue without its i-th item
Without(q, i) == SubSeq(q, 1, i - 1) \o SubSeq(q, i + 1, Len(q))

\* x goes before y: higher priority, or the same priority and enqueued first
EnqueuedBefore(x, y) ==
    x.priority > y.priority \/ (x.priority = y.priority /\ x.seq < y.seq)

\* x goes before y: higher priority, or the same priority and given it first
RankedBefore(x, y) ==
    x.priority > y.priority \/ (x.priority = y.priority /\ x.rank < y.rank)

\* C5, as stated: the worker always dequeues an item of maximal priority
\* among the queued items, and among items of equal priority the one
\* enqueued first; after every schedulePrefetch the queue is sorted by
\* non-increasing priority.
C5_DequeuesFirstEnqueued ==
    [][/\ \A i, j \in 1..Len(queue') :
             i < j => queue'[i].priority >= queue'[j].priority
       /\ (worker.pc = "loop" /\ queue # <<>>) =>
             \E i \in 1..Len(queue) :
                /\ queue' = Without(queue, i)
                /\ \A j \in 1..Len(queue) \ {i} :
                      EnqueuedBefore(queue[i], queue[j])]_vars

\* C5, amended: the worker always dequeues an item of maximal priority among
\* the queued items, and among items of equal priority the one that was
\* given that priority first, by being enqueued with it or by being raised
\* to it; after every schedulePrefetch the queue is sorted by non-increasing
\* priority.
C5_DequeuesFirstRanked ==
    [][/\ \A i, j \in 1..Len(queue') :
             i < j => queue'[i].priority >= queue'[j].priority
       /\ (worker.pc = "loop" /\ queue # <<>>) =>
             \E i \in 1..Len(queue) :
                /\ queue' = Without(queue, i)
                /\ \A j \in 1..Len(queue) \ {i} :
                      RankedBefore(queue[i], queue[j])]_vars

\* items enqueued with priorities 1, 5, 3: the worker has taken the 5 and
\* left the 3 before the 1
C5_Witness ==
    /\ worker.pc = "fetch"
    /\ worker.item.priority = 5 /\ worker.item.seq = 2
    /\ Len(queue) = 2
    /\ queue[1].priority = 3 /\ queue[1].seq = 3
    /\ queue[2].priority = 1 /\ queue[2].seq = 1

-----------------------------------------------------------------------------
(* Claims about useSmartPrefetch (SpecPrefetch)                             *)

Max(a, b) == IF a >= b THEN a ELSE b

\* the cache holds an entry for k that has not expired
ValidEntry(k) == Has(cache, k) /\ now <= cache[k].expiresAt

\* the cache holds a non-expired entry for k whose value is truthy
TruthyEntry(k) == ValidEntry(k) /\ cache[k].data # ""

\* the priority of the item queued for k
QueuedPriority(q, k) == q[CHOOSE i \in 1..Len(q) : q[i].key = k].priority

IsQueued(q, k) == \E i \in 1..Len(q) : q[i].key = k

OnePerKey(q) == \A i, j \in 1..Len(q) : q[i].key = q[j].key => i = j

\* the keys that have an item in the queue
QueuedKeys == {k \in PfKeys : IsQueued(queue, k)}

\* C6, as stated: the queue holds at most one item per key; scheduling a key
\* that is already queued adds no item and sets that item's priority to
\* max(existing, new).  (A call on a queued key never reaches the push, so
\* its timeout and background play no part: one value of each stands for
\* all.)
C6_DedupRaisesToMax ==
    [][/\ OnePerKey(queue')
       /\ \A k \in QueuedKeys, p \in PriorityInputs, ar \in BOOLEAN :
             SchedulePrefetch(k, p, Undefined, TRUE, ar) =>
                /\ Len(queue') = Len(queue)
                /\ IsQueued(queue', k)
                /\ QueuedPriority(queue', k) = Max(QueuedPriority(queue, k), p)]_vars

\* C6, amended: the queue holds at most one item per key; scheduling a key
\* that is already queued adds no item and sets that item's priority to
\* max(existing, new), unless autoRefetch is false and the cache holds a
\* non-expired truthy value for the key: then the call changes nothing.
C6_DedupRaisesUnlessCached ==
    [][/\ OnePerKey(queue')
       /\ \A k \in QueuedKeys, p \in PriorityInputs, ar \in BOOLEAN :
             SchedulePrefetch(k, p, Undefined, TRUE, ar) =>
                IF ~ar /\ TruthyEntry(k)
                THEN queue' = queue
                ELSE /\ Len(queue') = Len(queue)
                     /\ IsQueued(queue', k)
                     /\ QueuedPriority(queue', k)
                           = Max(QueuedPriority(queue, k), p)]_vars

\* priorities 2 then 7 on one key: one entry, with priority 7
C6_Witness ==
    /\ Len(queue) = 1
    /\ queue[1].priority = 7
    /\ queue[1].rank > queue[1].seq

\* C7: an item whose time in the queue exceeds its timeout (5000 ms when the
\* caller gave none) when it is dequeued is dropped: its fetchFn is not
\* invoked and nothing is written to the cache for it.
C7_StaleItemDropped ==
    [][(/\ worker.pc = "loop"
        /\ queue # <<>>
        /\ now - Head(queue).addedAt > EffectiveTimeout(Head(queue).timeout))
       => /\ worker'.pc = "loop"
          /\ queue' = Tail(queue)
          /\ cache' = cache]_vars

\* C8: schedulePrefetch with autoRefetch false, called while the cache holds
\* a non-expired entry for the key, whatever the stored value, leaves the
\* queue unchanged and starts no fetch.
C8_CachedScheduleIsNoOp ==
    [][\A k \in PfKeys, p \in PriorityInputs, t \in TimeoutInputs,
          bg \in BOOLEAN :
          (ValidEntry(k) /\ SchedulePrefetch(k, p, t, bg, FALSE)) =>
             queue' = queue /\ worker' = worker /\ isPrefetching' = isPrefetching]_vars

\* C9: prefetchNow returns the value of a non-expired entry without invoking
\* fetchFn; otherwise it invokes fetchFn, not going through the queue, and
\* on success stores the result under the key and returns it.
C9_PrefetchNowCacheFirst ==
    [][/\ \A k \in PfKeys :
             PrefetchNow(k) =>
                /\ queue' = queue
                /\ IF ValidEntry(k)
                   THEN /\ pnow'.pc = "idle"
                        /\ ret'.op = "prefetchNow"
                        /\ ret'.fetch = "none"
                        /\ ret'.value = cache[k].data
                   ELSE pnow' = [pc |-> "await", key |-> k]
       /\ \A v \in Values :
             PrefetchNowResolves(v) =>
                /\ Has(cache', pnow.key)
                /\ cache'[pnow.key].data = v
                /\ ret'.settled = "resolved"
                /\ ret'.value = v]_vars

\* C10, as stated: when fetchFn rejects, prefetchNow reports the failure
\* through a rejected promise and leaves the cache without an entry for the
\* key.
C10_FailureRejects ==
    (ret.op = "prefetchNow" /\ ret.fetch = "rejected") =>
        ret.settled = "rejected" /\ ~Has(cache, ret.key)

\* C10, amended: when fetchFn rejects, prefetchNow catches the error: its
\* promise resolves with null (it neither throws nor rejects) and the
\* failure writes nothing to the cache.
C10_FailureResolvesNull ==
    [][(ret'.op = "prefetchNow" /\ ret'.fetch = "rejected") =>
          /\ pnow.pc = "await"
          /\ ret'.settled = "resolved"
          /\ ret'.value = Null
          /\ cache' = cache]_vars

C10_Witness ==
    /\ ret.op = "prefetchNow"
    /\ ret.fetch = "rejected"
    /\ ret.settled = "resolved"
    /\ ret.value = Null
    /\ ~Has(cache, ret.key)

-----------------------------------------------------------------------------
(* Claims about the search stream (SpecSearch)                              *)

\* the debounce hands its value on in this step
DebouncePasses == search.pending # <<>> /\ search'.pending = <<>>

\* a query of Queries, trimmed and in lower case
Canonical(q) ==
    CASE q = <<"M", "e", " ">> -> <<"m", "e">>
      [] q = <<" ">> -> <<>>
      [] OTHER -> q

\* searchFn is invoked in this step, once, with q
InvokedOnceWith(q) ==
    /\ Len(search'.runs) = Len(search.runs) + 1
    /\ search'.runs[Len(search'.runs)].query = q
    /\ search'.runs[Len(search'.runs)].state = "pending"

\* C11, as stated: queries published less than debounceMs apart and then a
\* quiet period of debounceMs invoke searchFn exactly once, with the last
\* query: no call before the quiet period is over, one call with the query
\* last published when it is.
C11_BurstInvokesOnce ==
    [][/\ (search.pending # <<>> /\ now < search.lastTime + SearchDebounceMs)
             => Len(search'.runs) = Len(search.runs)
       /\ DebouncePasses => InvokedOnceWith(search.lastRaw[1])]_vars

\* C11, amended: such a burst invokes searchFn at most once, when the quiet
\* period is over, with the last query trimmed and in lower case; it is
\* invoked exactly once if that query is not empty and differs from the
\* query that passed the debounce before it, and not at all otherwise.
C11_BurstInvokesOnceIfNew ==
    [][/\ (search.pending # <<>> /\ now < search.lastTime + SearchDebounceMs)
             => Len(search'.runs) = Len(search.runs)
       /\ DebouncePasses =>
             LET q == Canonical(search.lastRaw[1])
             IN IF q # <<>> /\ (search.previous = <<>> \/ search.previous[1] # q)
                THEN InvokedOnceWith(q)
                ELSE search'.runs = search.runs]_vars

\* "Me " was published last and the quiet period is over: one call, with "me"
C11_Witness ==
    /\ search.lastRaw = << <<"M", "e", " ">> >>
    /\ search.pending = <<>>
    /\ Len(search.runs) = 1
    /\ search.runs[1].query = <<"m", "e">>

\* the runs whose result the subscribers of results$ received
DeliveredRuns(d) == {d[n].run : n \in 1..Len(d)}

\* C12: when a query passes the debounce while the searchFn call of an
\* earlier query is unresolved, the result of the earlier call is never
\* delivered, whether it settles before or after the later one: what
\* results$ delivers from then on is the result of the latest query only.
C12_LateResultsDiscarded ==
    [][/\ \A i \in 1..Len(search'.runs) :
             search'.runs[i].overtaken => i \notin DeliveredRuns(search'.delivered)
       /\ search'.delivered # search.delivered =>
             /\ Len(search'.delivered) = Len(search.delivered) + 1
             /\ search'.delivered[Len(search'.delivered)].run
                   = Len(search.runs)]_vars

\* "m" was overtaken by "me" and has resolved since, after the result of
\* "me" was delivered
C12_Witness ==
    /\ Len(search.runs) = 2
    /\ search.runs[1].overtaken
    /\ search.runs[1].state = "resolved"
    /\ search.runs[2].state = "resolved"
    /\ search.delivered = <<[run |-> 2, ok |-> TRUE]>>

-----------------------------------------------------------------------------
(* Claims about the auto-save stream (SpecAutoSave)                         *)

\* C13: after payloads d1..dn were published to save$ less than debounceMs
\* apart and debounceMs passed without another, saveFn is invoked exactly
\* once, with dn, the payload published last; status$ then emits 'saved' if
\* that call resolves and 'error' if it rejects.
C13_SavesLastPayload ==
    [][/\ AutoSaveDebounceEmits =>
             /\ Len(autoSave'.runs) = Len(autoSave.runs) + 1
             /\ autoSave'.runs[Len(autoSave'.runs)].arg = autoSave.lastRaw[1]
       /\ \A ok \in BOOLEAN :
             AutoSaveSettles(Len(autoSave.runs), ok) =>
                autoSave'.emitted =
                   Append(autoSave.emitted, IF ok THEN "saved" ELSE "error")]_vars

\* C14: every payload published to save$ makes status$ emit 'saving' at
\* once, before the debounce window is over and before saveFn is invoked.
C14_SavingEmittedAtOnce ==
    [][\A data \in Payloads :
          AutoSaveNext(data) /\ autoSave.subscribed =>
             autoSave'.emitted = Append(autoSave.emitted, "saving")]_vars

-----------------------------------------------------------------------------
(* Claims about the retryable stream (SpecRetryable)                        *)

-----------------------------------------------------------------------------
(* Claims about the retry epic (SpecEpic)                                   *)

\* C16: when an operation fails on every attempt, retryFailedOperationsEpic
\* dispatches it again at most 3 times, 2000 ms after each failure, and
\* then emits transactions/operationGaveUp instead of retrying again.
C16_RetryIsBounded ==
    [][\A type \in ActionTypes :
          EpicStoreAnswersFailed(type) =>
             IF retryEpic.redispatched[type] < EpicRetries
             THEN /\ retryEpic'.timer =
                        <<[type |-> type, due |-> now + EpicDelayMs]>>
                  /\ ~retryEpic'.gaveUp
             ELSE /\ retryEpic'.gaveUp
                  /\ retryEpic'.timer = retryEpic.timer]_vars

-----------------------------------------------------------------------------
(* Claims about the infinite-scroll stream (SpecScroll)                     *)

\* scroll$.next(ev) has called loadMoreFn
LoadsMore == Len(scroll'.loads) = Len(scroll.loads) + 1

\* the event reaches the filter: loadMore$ is subscribed and the throttle
\* window of an earlier event is over
ReachesFilter == scroll.subscribed /\ now >= scroll.throttledUntil

\* the quotient of JavaScript is at least the threshold: a positive
\* number over 0 is Infinity, 0 over 0 is NaN
RatioAtLeastThreshold(ev) ==
    \/ /\ ev.contentHeight > 0
       /\ (ev.scrollY + ev.viewportHeight) * ThresholdDen
             >= ThresholdNum * ev.contentHeight
    \/ /\ ev.contentHeight = 0
       /\ ev.scrollY + ev.viewportHeight > 0

\* C17: the infinite-scroll stream invokes loadMoreFn for a scroll event
\* only if (scrollY + viewportHeight) / contentHeight >= scrollThreshold,
\* and does so for an event that reaches the filter: with threshold 0.8 an
\* event of ratio 0.75 does not trigger loadMoreFn, and one of ratio 0.8
\* or 0.85 does.
C17_LoadsMoreFromThreshold ==
    [][/\ \A ev \in ScrollEvents :
             ScrollNext(ev) /\ LoadsMore => RatioAtLeastThreshold(ev)
       /\ ScrollNext(Ratio075) => ~LoadsMore
       /\ ScrollNext(Ratio080) /\ ReachesFilter => LoadsMore
       /\ ScrollNext(Ratio085) /\ ReachesFilter => LoadsMore]_vars

\* an event of ratio 0.75 reached the filter without a call of loadMoreFn,
\* one of ratio 0.85 reached it later and made the one call
C17_Witness ==
    /\ scroll.passed = <<Ratio075, Ratio085>>
    /\ Len(scroll.loads) = 1

-----------------------------------------------------------------------------
(* Claims about the retry timers of the executor (SpecRetry)                *)

\* C18: once the owner of a useSmartCache instance is unmounted, no retry
\* timer made by executeWithRetry is pending and action is never invoked
\* again, whatever calls were made before: several on one key, or calls
\* whose action is in flight at the unmount.
C18_UnmountStopsRetries ==
    [][~mounted' =>
          \A c \in CallIds :
             /\ calls'[c].pc # "timer"
             /\ calls'[c].invoked = calls[c].invoked]_vars

\* the failed attempts made for key k, by all the calls on it
FailuresOn(cs, k) ==
    LET F(c) == IF cs[c].pc # "new" /\ cs[c].key = k THEN cs[c].fails ELSE 0
    IN F(1) + F(2)

\* no attempt for key k has succeeded and the owner has not touched the key
OnlyFailuresOn(k) ==
    /\ k \notin meddled
    /\ \A c \in CallIds : calls[c].key = k => calls[c].outcome # "succeeded"

\* C19: after the k-th consecutive failed attempt for a key, with
\* 1 <= k <= maxRetries, the next attempt is scheduled exactly
\* retryDelay * k ms later: the waits are retryDelay, 2 * retryDelay,
\* 3 * retryDelay.
C19_LinearBackoffPerKey ==
    [][\A c \in CallIds :
          /\ ActionRejects(c)
          /\ OnlyFailuresOn(calls[c].key)
          /\ FailuresOn(calls', calls[c].key) <= cfg.maxRetries
          => /\ calls'[c].pc = "timer"
             /\ calls'[c].due =
                   now + cfg.retryDelay * FailuresOn(calls', calls[c].key)]_vars

-----------------------------------------------------------------------------
(* Claims about the single-flight worker (SpecWorker)                       *)

\* C20: at most one run of the drain loop of processPrefetchQueue is active
\* at any time, however schedulePrefetch in the foreground, prefetchBatch,
\* the 2 s interval and direct calls interleave; a call made while a run is
\* active starts no run and takes nothing off the queue, and isPrefetching
\* is true exactly while a run is active.
C20_SingleFlight ==
    [][/\ hist'.runs <= 1
       /\ isPrefetching' <=> hist'.runs = 1
       /\ isPrefetching' <=> worker'.pc # "idle"
       /\ isPrefetching =>
             /\ hist'.runs <= hist.runs
             /\ Len(queue') < Len(queue) =>
                   WorkerLoop \/ ClearPrefetchQueue]_vars

\* the run has been awaiting its fetch since time 0, and a prefetchBatch
\* (the only source of an item without a priority) scheduled an item at a
\* later time: its processPrefetchQueue call found the run active
C20_Witness ==
    /\ isPrefetching
    /\ hist.runs = 1
    /\ worker.pc = "fetch"
    /\ worker.due = 0
    /\ \E i \in 1..Len(queue) :
          queue[i].addedAt > 0 /\ queue[i].priority = DefaultPriority

-----------------------------------------------------------------------------
(* Claims about the race of a queue item against its timeout (SpecPrefetch) *)

\* C21: when the timeout of an executing queue item elapses before its
\* fetchFn settles, the item is treated as failed: nothing is written to
\* the cache and the key is not added to the prefetched keys, then or when
\* fetchFn resolves afterwards, while the worker handles later items.
C21_TimedOutItemWritesNothing ==
    [][/\ RaceTimesOut =>
             /\ cache' = cache
             /\ prefetchedKeys' = prefetchedKeys
             /\ worker'.pc = "pause"
       /\ \A k \in PfKeys, v \in Values :
             LateFetchResolves(k, v) =>
                /\ cache' = cache
                /\ prefetchedKeys' = prefetchedKeys]_vars

\* the fetch of the first item lost its race and resolved while the worker
\* was awaiting the fetch of the item scheduled after it: no entry, no key
C21_Witness ==
    /\ hist.ignored = {"a"}
    /\ worker.pc = "fetch"
    /\ worker.item.seq = 2
    /\ ~Has(cache, "a")
    /\ "a" \notin prefetchedKeys

-----------------------------------------------------------------------------
(* Claims about a failed queue item (SpecWorker)                            *)

\* the seq of the items in queue q
SeqsIn(q) == {q[i].seq : i \in 1..Len(q)}

-----------------------------------------------------------------------------
(* Claims about the background queue (SpecBackground)                       *)

-----------------------------------------------------------------------------
(* Claims about the attempt counts of the executor (SpecRetry)              *)

\* C24: in every reachable state, concurrent executeWithRetry calls on one
\* key included, the attempt count recorded for a key is between 1 and
\* maxRetries; and a key whose count has reached maxRetries is abandoned:
\* on its next failure the count is cleared and the failing call chain
\* schedules no further retry timer.
C24_CountBoundedThenAbandoned ==
    [][/\ \A k \in DOMAIN retryCount' :
             retryCount'[k] >= 1 /\ retryCount'[k] <= cfg.maxRetries
       /\ \A c \in CallIds :
             ActionRejects(c) /\ CountOf(calls[c].key) = cfg.maxRetries =>
                /\ ~Has(retryCount', calls[c].key)
                /\ calls'[c].pc = "done"]_vars

-----------------------------------------------------------------------------
(* Claims about the default timeout (SpecPrefetch)                          *)

\* C25: an item scheduled without an explicit timeout is handled with the
\* default timeout of 5000 ms: its race is not lost to the timeout before
\* 5000 ms have passed since its fetchFn was called, and a fetchFn that
\* resolves before that has its result written to the cache under the key.
C25_DefaultTimeoutApplies ==
    [][worker.pc = "fetch" /\ worker.item.timeout = Undefined =>
          /\ RaceTimesOut => now >= worker.start + DefaultTimeout
          /\ \A v \in Values :
                FetchResolves(v) =>
                   /\ Has(cache', worker.item.key)
                   /\ cache'[worker.item.key].data = v]_vars

-----------------------------------------------------------------------------
(* Claims about calls whose action always fails (SpecFailing) *)

\* no chain has an action in flight or a retry timer pending
RetryingOver == \A c \in CallIds : calls[c].pc \in {"new", "done"}

\* the most action invocations one of two concurrent calls can cause: the
\* other call's late writes set the count back by one attempt less each time
MostInvocations == ((cfg.maxRetries + 1) * (cfg.maxRetries + 2)) \div 2

\* C26: concurrent executeWithRetry calls whose action always fails stop
\* retrying: the number of action invocations is bounded, every call that
\* was made comes to its end, and once no call is retrying no retry timer
\* is registered and no attempt count is recorded
C26_RetryingTerminates ==
    /\ [](\A c \in CallIds : calls[c].invoked <= MostInvocations)
    /\ \A c \in CallIds : (calls[c].pc # "new") ~> RetryingOver
    /\ [](RetryingOver => retryCount = EmptyMap /\ retryTimeouts = EmptyMap)

\* two calls on one key were in flight together and both have given up
C26_Witness ==
    /\ RetryingOver
    /\ \A c \in CallIds : calls[c].outcome = "exhausted" /\ calls[c].key = "a"
    /\ \E c \in CallIds : calls[c].invoked > cfg.maxRetries + 1

-----------------------------------------------------------------------------
(* Claims about invalidation and the calls in flight (SpecInvalidate) *)

\* C27: once invalidateCache(key) has returned and no new setCached or
\* executeWithRetry is issued for key, the cache never holds an entry for
\* key and no retry for key is executed, whatever call was in flight or
\* had a retry scheduled when the key was invalidated
C27_InvalidatedKeyStaysGone ==
    /\ [](\A k \in meddled : ~Has(cache, k))
    /\ [][\A c \in CallIds :
             RetryTimerFires(c) => calls[c].key \notin meddled]_vars

-----------------------------------------------------------------------------
(* Claims about the infinite-scroll hook (SpecScrollHook) *)

\* C28: in useReactiveInfiniteScroll a scroll event that meets the
\* threshold leads to a call of loadMoreFn, and the loading flag it raised
\* returns to false, whatever events were reported before it
C28_MeetingEventLoads ==
    /\ scroll.unmet ~> ~scroll.unmet
    /\ (scroll.loading /\ LoadInProgress) ~> ~scroll.loading

-----------------------------------------------------------------------------
(* Claims about exceptions in the store's epics (SpecStore) *)

EmitsOne(type) ==
    /\ Len(epics'.emitted) = Len(epics.emitted) + 1
    /\ epics'.emitted[Len(epics'.emitted)].type = type

\* C29: an exception raised while an epic handles a triggering action
\* yields the epic's error action and does not stop the epic: every
\* validateAndCreate, the later ones too, yields exactly one action
\* (validationError for a null payload, else validationFailed or
\* createTransaction), and every setSearchQuery is taken up by the
\* debounce and yields searchError when its payload is no string
C29_EpicSurvivesException ==
    [][/\ \A p \in ValidatePayloads :
             DispatchValidateAndCreate(p) =>
                IF ValidateThrows(p)
                THEN EmitsOne("transactions/validationError")
                ELSE \/ EmitsOne("transactions/validationFailed")
                     \/ EmitsOne("transactions/createTransaction")
       /\ \A q \in SearchPayloads :
             DispatchSetSearchQuery(q) =>
                epics'.debounce = <<[payload |-> q, due |-> now + EpicDebounceMs]>>
       /\ SearchDebounceFires /\ SearchThrows(epics.debounce[1].payload) =>
             EmitsOne("transactions/searchError")]_vars

-----------------------------------------------------------------------------
(* Claims about the retry of every failure (SpecEpic) *)

\* C30: every ...Failed action the epic takes up is followed, 2000 ms
\* later, by one retry action of the corresponding non-Failed type, also
\* when another ...Failed action arrives within those 2000 ms: the timer
\* waiting for a failure goes away only by firing, when it is due, with
\* the re-dispatch of that failure's operation
C30_EveryFailureIsRetried ==
    [][retryEpic.timer # <<>> /\ retryEpic'.timer # retryEpic.timer =>
          LET failed == retryEpic.timer[1]
          IN /\ now >= failed.due
             /\ retryEpic'.redispatched[failed.type]
                   = retryEpic.redispatched[failed.type] + 1
             /\ RetryType(failed.type) \in retryEpic'.inflight]_vars

=============================================================================
